---------------------------- MODULE Spec2Model ----------------------------
(***************************************************************************)
(* Model of the image-to-header tools of DiceMaster_ESPScreen/scripts:     *)
(*   img2rgb565.py  (pixel packing RGB565, single-file and directory mode) *)
(*   img2rgb666.py  (pixel packing RGB666, single-file mode)               *)
(*   img2bytes.py   (raw byte dump, single-file and directory mode)        *)
(*                                                                         *)
(* Four specifications share the module:                                   *)
(*   SpecPixel   one pixel is drawn and packed/formatted by an encoder     *)
(*   SpecSerial  one value list is drawn and written by an array writer    *)
(*   Spec        one invocation of a tool on a path (file or directory)    *)
(*   SpecCombine one call of combine_h_files of combine_h.py               *)
(*                                                                         *)
(* Characters of emitted text are one-character strings; file names are    *)
(* sequences of ASCII codes, so that list.sort() and str.lower() can be    *)
(* computed as Python computes them.                                       *)
(***************************************************************************)
EXTENDS Integers, Sequences, FiniteSets, TLC

VARIABLES
    \* --- SpecPixel ---
    pixel,      \* the (r, g, b) triple returned by getpixel
    pixTool,    \* "none" before encoding, then the encoder that ran
    pixValue,   \* the packed integer (rgb565 / rgb666 local variable)
    pixToken,   \* the text written for that pixel into the array body
    \* --- SpecSerial ---
    serTool,    \* the array writer under test ("none" outside SpecSerial)
    serData,    \* the list handed to the array writer
    serPc,      \* "ready" before the writer ran, "written" after
    serDecl,    \* the length written between [ ] (NoLen for "[]")
    serLines,   \* the body lines written, in order
    \* --- Spec: one invocation of a tool ---
    tool,       \* "img2bytes", "img2rgb565" or "img2rgb666" ("none" elsewhere)
    argKind,    \* what the input path is: "dir", "file" or "missing"
    dirEntries, \* directory mode: the entries of the input directory
    listing,    \* directory mode: what os.listdir is about to return
    inputName,  \* single-file mode: the name of the input file
    pc,         \* position of the run
    files,      \* the filtered, sorted file list
    idx,        \* index of the next element of files (enumerate)
    arrays,     \* array declarations produced so far, in order
    arrayNames, \* img2bytes: array_names
    arraySizes, \* array_sizes
    numImages,  \* img2rgb565: num_images
    ptrTable,   \* NAME_array: NoTable or [declared, entries]
    sizeTable,  \* NAME_sizes: NoTable or [declared, entries]
    written,    \* the output artifact on disk: "absent", "partial", "complete"
    exitStatus, \* the status the process exits with (meaningful at pc = "exit")
    report,     \* the kinds of message printed so far
    \* --- SpecCombine: one call of combine_h_files ---
    inputDir,   \* input_dir: [path, at], the path given and the directory it is
    outputFile, \* output_file: [path, at, name], likewise, with its base name
    present,    \* the names of the files in the input directory before the run
    globOrder,  \* the order in which glob is about to return the directory
    cmbPc,      \* position of the call
    hFiles,     \* h_files
    hIdx,       \* index of the next element of h_files
    outfile     \* the blocks written to the output file so far

pixVars == <<pixel, pixTool, pixValue, pixToken>>
serVars == <<serTool, serData, serPc, serDecl, serLines>>
runVars == <<tool, argKind, dirEntries, listing, inputName, pc, files, idx, arrays,
             arrayNames, arraySizes, numImages, ptrTable, sizeTable, written,
             exitStatus, report>>
cmbVars == <<inputDir, outputFile, present, globOrder, cmbPc, hFiles, hIdx, outfile>>
vars == <<pixVars, serVars, runVars, cmbVars>>

---------------------------------------------------------------------------
(* Bounds of the model *)

\* channel values are sampled around every multiple of ChanStride
ChanStride == 32
\* longest list handed to an array writer
MaxSerLen == 34
\* most entries in the input directory
MaxEntries == 3
\* longest input file of img2bytes, in bytes
MaxBytes == 25

(* Program constants *)
ChannelMax == 255
\* width of the element type the RGB666 array is declared with (uint16_t)
ElemBits666 == 16
\* the length img2rgb666 writes between the brackets
DeclaredLen666 == 230400
\* both sides of Image.resize((480, 480))
ResizeSide == 480
\* items per line of a byte array and of a 16-bit array
BytesPerLine == 12
WordsPerLine == 16

---------------------------------------------------------------------------
(* Python integer and string primitives *)

Min(a, b) == IF a <= b THEN a ELSE b

RECURSIVE Pow2(_)
Pow2(n) == IF n = 0 THEN 1 ELSE 2 * Pow2(n - 1)

\* a >> n and a << n on non-negative Python ints
Shr(a, n) == a \div Pow2(n)
Shl(a, n) == a * Pow2(n)

\* a | b on non-negative Python ints, bit by bit
RECURSIVE BitOr(_, _)
BitOr(a, b) ==
    IF a = 0 THEN b
    ELSE IF b = 0 THEN a
    ELSE (IF (a % 2 = 1) \/ (b % 2 = 1) THEN 1 ELSE 0)
         + 2 * BitOr(a \div 2, b \div 2)

HexChars == <<"0", "1", "2", "3", "4", "5", "6", "7",
              "8", "9", "A", "B", "C", "D", "E", "F">>

\* digits of v in the given base, most significant first, no padding
RECURSIVE Digits(_, _)
Digits(v, base) ==
    IF v < base THEN <<HexChars[v + 1]>>
    ELSE Digits(v \div base, base) \o <<HexChars[(v % base) + 1]>>

\* zero-pad on the left to a minimum width (never truncates)
RECURSIVE ZeroPad(_, _)
ZeroPad(s, width) == IF Len(s) >= width THEN s ELSE ZeroPad(<<"0">> \o s, width)

\* f'0x{v:0<width>X}'
HexToken(v, width) == <<"0", "x">> \o ZeroPad(Digits(v, 16), width)

\* str(v) for a non-negative int
DecToken(v) == Digits(v, 10)

---------------------------------------------------------------------------
(* Pixel encoders *)

\* img2rgb565.py line 32
RGB565Swapped(r, g, b) == BitOr(BitOr(Shl(Shr(r, 3), 11), Shl(Shr(g, 3), 5)), Shr(b, 3))
RGB565(r, g, b) == BitOr(BitOr(Shl(Shr(r, 3), 11), Shl(Shr(g, 2), 5)), Shr(b, 3))

\* img2rgb666.py line 28
RGB666Masked(r, g, b) == BitOr(BitOr(Shl(Shr(r, 2), 12), Shl(Shr(g, 2), 6)), Shr(b, 2)) % 65536
RGB666(r, g, b) == BitOr(BitOr(Shl(Shr(r, 2), 12), Shl(Shr(g, 2), 6)), Shr(b, 2))

\* the 8-bit channel values the model draws pixels from
ChannelSample ==
    {c \in 0..ChannelMax : c % ChanStride \in {0, 1, ChanStride - 1}} \cup {ChannelMax}

PixInit ==
    /\ pixel \in ChannelSample \X ChannelSample \X ChannelSample
    /\ pixTool = "none"
    /\ pixValue = 0
    /\ pixToken = <<>>

\* img2rgb565.py lines 30-33: one iteration of the pixel loop
EncodeRGB565 ==
    /\ pixTool = "none"
    /\ pixTool' = "rgb565"
    /\ pixValue' = RGB565(pixel[1], pixel[2], pixel[3])
    /\ pixToken' = HexToken(pixValue', 4)
    /\ UNCHANGED pixel

\* img2rgb666.py lines 27-29 and the str() of line 40
EncodeRGB666 ==
    /\ pixTool = "none"
    /\ pixTool' = "rgb666"
    /\ pixValue' = RGB666(pixel[1], pixel[2], pixel[3])
    /\ pixToken' = DecToken(pixValue')
    /\ UNCHANGED pixel

PixIdle ==
    /\ pixel = <<0, 0, 0>>
    /\ pixTool = "idle"
    /\ pixValue = 0
    /\ pixToken = <<>>

SerIdle ==
    /\ serTool = "none"
    /\ serData = <<>>
    /\ serPc = "idle"
    /\ serDecl = 0
    /\ serLines = <<>>

\* marks a declaration written with empty brackets, NAME[]
NoLen == -1
\* a table that has not been written
NoTable == [declared |-> NoLen, entries |-> <<>>]

RunIdle ==
    /\ tool = "none"
    /\ argKind = "missing"
    /\ dirEntries = {}
    /\ listing = <<>>
    /\ inputName = <<>>
    /\ pc = "idle"
    /\ files = <<>>
    /\ idx = 0
    /\ arrays = <<>>
    /\ arrayNames = <<>>
    /\ arraySizes = <<>>
    /\ numImages = 0
    /\ ptrTable = NoTable
    /\ sizeTable = NoTable
    /\ written = "absent"
    /\ exitStatus = 0
    /\ report = {}

CmbIdle ==
    /\ inputDir = [path |-> <<>>, at |-> "none"]
    /\ outputFile = [path |-> <<>>, at |-> "none", name |-> <<>>]
    /\ present = {}
    /\ globOrder = <<>>
    /\ cmbPc = "idle"
    /\ hFiles = <<>>
    /\ hIdx = 0
    /\ outfile = <<>>

PixNext ==
    \/ EncodeRGB565 /\ UNCHANGED <<serVars, runVars, cmbVars>>
    \/ EncodeRGB666 /\ UNCHANGED <<serVars, runVars, cmbVars>>

PixelInit == PixInit /\ SerIdle /\ RunIdle /\ CmbIdle

SpecPixel == PixelInit /\ [][PixNext]_vars

\* value of a run of digit characters in the given base
CharVal(c) == CHOOSE d \in 0..15 : HexChars[d + 1] = c
RECURSIVE ParseDigits(_, _)
ParseDigits(s, base) ==
    IF s = <<>> THEN 0
    ELSE ParseDigits(SubSeq(s, 1, Len(s) - 1), base) * base + CharVal(s[Len(s)])

\* C2: for every pixel the RGB565 encoder writes "0x" and exactly four hex
\* digits whose value v is at most 0xFFFF and carries r>>3 in bits 11..15,
\* g>>2 in bits 5..10 and b>>3 in bits 0..4, the fields not overlapping;
\* white gives 0xFFFF, black 0x0000 and pure red 0xF800.
C2_RGB565Exact ==
    pixTool = "rgb565" =>
        LET r == pixel[1]
            g == pixel[2]
            b == pixel[3]
            v == ParseDigits(SubSeq(pixToken, 3, Len(pixToken)), 16)
        IN  /\ Len(pixToken) = 6
            /\ SubSeq(pixToken, 1, 2) = <<"0", "x">>
            /\ v = pixValue
            /\ v \in 0..65535
            /\ v = (r \div 8) * 2048 + (g \div 4) * 32 + (b \div 8)
            /\ v \div 2048 = r \div 8
            /\ (v \div 32) % 64 = g \div 4
            /\ v % 32 = b \div 8
            /\ (pixel = <<255, 255, 255>> => pixToken = <<"0", "x", "F", "F", "F", "F">>)
            /\ (pixel = <<0, 0, 0>> => pixToken = <<"0", "x", "0", "0", "0", "0">>)
            /\ (pixel = <<255, 0, 0>> => pixToken = <<"0", "x", "F", "8", "0", "0">>)

C2_Witness ==
    /\ pixTool = "rgb565"
    /\ pixel = <<255, 0, 0>>
    /\ pixToken = <<"0", "x", "F", "8", "0", "0">>

\* C3: for every pixel the RGB666 encoder writes the decimal text of
\* (r>>2)*2^12 + (g>>2)*2^6 + (b>>2), the three 6-bit fields side by side,
\* with nothing masked off: values above 0xFFFF are written as they are.
C3_RGB666Exact ==
    pixTool = "rgb666" =>
        LET r == pixel[1]
            g == pixel[2]
            b == pixel[3]
            v == ParseDigits(pixToken, 10)
        IN  /\ v = pixValue
            /\ v = (r \div 4) * 4096 + (g \div 4) * 64 + (b \div 4)
            /\ v \div 4096 = r \div 4
            /\ (v \div 64) % 64 = g \div 4
            /\ v % 64 = b \div 4

C3_Witness ==
    /\ pixTool = "rgb666"
    /\ pixel = <<255, 0, 1>>
    /\ pixValue = 63 * 4096
    /\ pixToken = <<"2", "5", "8", "0", "4", "8">>

\* C4 (as claimed): the RGB666 value of white is 0xFFFF, of black 0x0000,
\* and every RGB666 value fits the uint16_t element it is declared in.
C4_RGB666FitsUint16 ==
    pixTool = "rgb666" =>
        /\ pixValue < Pow2(ElemBits666)
        /\ (pixel = <<255, 255, 255>> => pixValue = 65535)
        /\ (pixel = <<0, 0, 0>> => pixValue = 0)

---------------------------------------------------------------------------
(* Array writers *)

\* number of iterations of range(0, n, k)
RangeCount(n, k) == (n + k - 1) \div k

\* the end index of data[i:i+k] in a list of n values: clipped to n
SliceEndShort(i, k, n) == Min(i + k - 1, n)
SliceEnd(i, k, n) == Min(i + k, n)

\* data[i:i+k] (0-based i)
Slice(data, i, k) == SubSeq(data, i + 1, SliceEnd(i, k, Len(data)))

\* the test "i + k < n" that decides whether a line ends with a comma
MoreFollowsInclusive(i, k, n) == i + k <= n
MoreFollows(i, k, n) == i + k < n

\* the text of one value inside a line: f'0x{byte:02X}' (img2bytes),
\* str(v) (img2rgb666), or the value itself, already a string (img2rgb565)
FormatValue(fmt, v) ==
    CASE fmt = "02X" -> HexToken(v, 2)
      [] fmt = "str" -> DecToken(v)
      [] OTHER -> v

\* the body-writing loop shared, as copies, by the three tools:
\* for i in range(0, n, k): line = ', '.join(fmt(x) for x in data[i:i+k]),
\* written with ',\n' when i + k < n and with '\n' otherwise.  A line is
\* kept as its ', '-joined tokens and whether it ends with a comma.
WriteBody(data, k, fmt) ==
    [j \in 1..RangeCount(Len(data), k) |->
        LET i == (j - 1) * k
            part == Slice(data, i, k)
        IN  [vals  |-> [x \in 1..Len(part) |-> FormatValue(fmt, part[x])],
             comma |-> MoreFollows(i, k, Len(data))]]

SerTools == {"generate_header_content", "write_array_to_file", "convert_image_to_rgb666"}

\* test data: n values below `modulus`, spread by position and seed
Pattern(n, seed, modulus) == [i \in 1..n |-> (seed + i * (2 * seed + 59)) % modulus]

Seeds == {0, 7, 200}

SerInit ==
    /\ serTool \in SerTools
    /\ \E n \in 0..MaxSerLen, seed \in Seeds :
          serData = CASE serTool = "generate_header_content" -> Pattern(n, seed, 256)
                      [] serTool = "write_array_to_file" ->
                            [i \in 1..n |-> HexToken(Pattern(n, seed, 65536)[i], 4)]
                      [] OTHER -> Pattern(n, seed, 262144)
    /\ serPc = "ready"
    /\ serDecl = 0
    /\ serLines = <<>>

\* img2bytes.py generate_header_content, lines 42-53: NAME[] and 12 per line
GenerateHeaderContent ==
    /\ serTool = "generate_header_content" /\ serPc = "ready"
    /\ serDecl' = NoLen
    /\ serLines' = WriteBody(serData, BytesPerLine, "02X")
    /\ serPc' = "written"
    /\ UNCHANGED <<serTool, serData>>

\* img2rgb565.py write_array_to_file, lines 41-49: NAME[len(data)], 16 per line
WriteArrayToFile ==
    /\ serTool = "write_array_to_file" /\ serPc = "ready"
    /\ serDecl' = Len(serData)
    /\ serLines' = WriteBody(serData, WordsPerLine, "s")
    /\ serPc' = "written"
    /\ UNCHANGED <<serTool, serData>>

\* img2rgb666.py lines 38-44: NAME[230400], 16 per line, str() of each value
WriteRGB666Array ==
    /\ serTool = "convert_image_to_rgb666" /\ serPc = "ready"
    /\ serDecl' = DeclaredLen666
    /\ serLines' = WriteBody(serData, WordsPerLine, "str")
    /\ serPc' = "written"
    /\ UNCHANGED <<serTool, serData>>

SerNext ==
    \/ GenerateHeaderContent /\ UNCHANGED <<pixVars, runVars, cmbVars>>
    \/ WriteArrayToFile /\ UNCHANGED <<pixVars, runVars, cmbVars>>
    \/ WriteRGB666Array /\ UNCHANGED <<pixVars, runVars, cmbVars>>

SerialInit == SerInit /\ PixIdle /\ RunIdle /\ CmbIdle

SpecSerial == SerialInit /\ [][SerNext]_vars

\* items per line of the writer under test, and the text of one value
SerK == IF serTool = "generate_header_content" THEN BytesPerLine ELSE WordsPerLine
RECURSIVE Flatten(_)
Flatten(lines) ==
    IF lines = <<>> THEN <<>>
    ELSE Flatten(SubSeq(lines, 1, Len(lines) - 1)) \o lines[Len(lines)].vals
Ceil(n, k) == IF n % k = 0 THEN n \div k ELSE n \div k + 1

\* C7: an array writer puts n values, k per line, in their original order on
\* ceil(n/k) lines; every line but the last holds exactly k values and ends
\* with a comma, the last holds 1..k values and ends without one.
C7_LineWrapping ==
    serPc = "written" =>
        LET n == Len(serData)
            m == Len(serLines)
            text == Flatten(serLines)
        IN  /\ m = Ceil(n, SerK)
            /\ Len(text) = n
            /\ \A i \in 1..n :
                  text[i] = CASE serTool = "generate_header_content" ->
                                   <<"0", "x">> \o ZeroPad(Digits(serData[i], 16), 2)
                              [] serTool = "write_array_to_file" -> serData[i]
                              [] OTHER -> Digits(serData[i], 10)
            /\ \A j \in 1..m :
                  IF j < m
                  THEN Len(serLines[j].vals) = SerK /\ serLines[j].comma
                  ELSE Len(serLines[j].vals) \in 1..SerK /\ ~serLines[j].comma

\* 13 byte values: a 12-value line with a comma, then a 1-value line without
C7_Witness ==
    /\ serPc = "written"
    /\ serTool = "generate_header_content"
    /\ Len(serData) = 13
    /\ Len(serLines) = 2
    /\ Len(serLines[1].vals) = 12 /\ serLines[1].comma
    /\ Len(serLines[2].vals) = 1 /\ ~serLines[2].comma

---------------------------------------------------------------------------
(* File names, the directory filter and the sort *)

\* str.lower() on one ASCII code and on a name
Lower(c) == IF c >= 65 /\ c <= 90 THEN c + 32 ELSE c
LowerStr(s) == [i \in 1..Len(s) |-> Lower(s[i])]

\* str.endswith(suf)
EndsWith(s, suf) ==
    Len(s) >= Len(suf) /\ SubSeq(s, Len(s) - Len(suf) + 1, Len(s)) = suf

\* '.png', '.jpg', '.jpeg'
DotPng == <<46, 112, 110, 103>>
DotJpg == <<46, 106, 112, 103>>
DotJpeg == <<46, 106, 112, 101, 103>>

\* position of the last '.' of s, 0 when there is none
RECURSIVE LastDot(_)
LastDot(s) ==
    IF s = <<>> THEN 0
    ELSE IF s[Len(s)] = 46 THEN Len(s)
    ELSE LastDot(SubSeq(s, 1, Len(s) - 1))

\* path.split('.')[-1].lower()
Ext(s) == LowerStr(SubSeq(s, LastDot(s) + 1, Len(s)))

\* supported_formats = ['png', 'jpeg', 'jpg']
SupportedFormats == {Tail(DotPng), Tail(DotJpeg), Tail(DotJpg)}

\* Python's str < str: code point by code point, a proper prefix is smaller
RECURSIVE LexLess(_, _)
LexLess(a, b) ==
    IF b = <<>> THEN FALSE
    ELSE IF a = <<>> THEN TRUE
    ELSE IF a[1] # b[1] THEN a[1] < b[1]
    ELSE LexLess(Tail(a), Tail(b))

RECURSIVE Insert(_, _)
Insert(x, sorted) ==
    IF sorted = <<>> THEN <<x>>
    ELSE IF LexLess(x, sorted[1]) THEN <<x>> \o sorted
    ELSE <<sorted[1]>> \o Insert(x, Tail(sorted))

\* files.sort()
RECURSIVE SortNames(_)
ListingOrder(list) == list
SortNames(list) ==
    IF list = <<>> THEN <<>>
    ELSE Insert(list[Len(list)], SortNames(SubSeq(list, 1, Len(list) - 1)))

\* the filter of img2rgb565.py line 76 and of img2bytes.py line 82
Accept565(e) ==
    e.isfile /\ (EndsWith(LowerStr(e.name), DotJpg) \/ EndsWith(LowerStr(e.name), DotJpeg))
AcceptBytes(e) ==
    e.isfile /\ (\/ EndsWith(LowerStr(e.name), DotPng)
                 \/ EndsWith(LowerStr(e.name), DotJpg)
                 \/ EndsWith(LowerStr(e.name), DotJpeg))

\* [f for f in os.listdir(d) if isfile(f) and f.lower().endswith(...)], sorted
FilterSort565(list) ==
    LET kept == SelectSeq(list, Accept565)
    IN  SortNames([i \in 1..Len(kept) |-> kept[i].name])
FilterSortBytes(list) ==
    LET kept == SelectSeq(list, AcceptBytes)
    IN  SortNames([i \in 1..Len(kept) |-> kept[i].name])

\* the directory entries the model draws from
APng == <<97>> \o DotPng
BPng == <<98>> \o DotPng
CBmp == <<99, 46, 98, 109, 112>>
UpperBJpg == <<66, 46, 74, 80, 71>>
AJpg == <<97>> \o DotJpg
DJpeg == <<100>> \o DotJpeg
EJpg == <<101>> \o DotJpg
EntryUniverse ==
    {[name |-> n, isfile |-> TRUE] : n \in {APng, BPng, CBmp, UpperBJpg, AJpg, DJpeg}}
    \cup {[name |-> EJpg, isfile |-> FALSE]}

\* every order in which os.listdir may return a set of entries
Orders(S) ==
    {q \in [1..Cardinality(S) -> S] : \A i, j \in 1..Cardinality(S) : q[i] = q[j] => i = j}

---------------------------------------------------------------------------
(* One invocation of a tool *)

\* number of values the body loop writes for a list of n values: the sum,
\* over the iterations lo..hi of range(0, n, k), of len(data[i:i+k])
RECURSIVE SumLines(_, _, _, _)
SumLines(n, k, lo, hi) ==
    IF lo > hi THEN 0
    ELSE IF lo = hi THEN SliceEnd((lo - 1) * k, k, n) - (lo - 1) * k
    ELSE LET mid == (lo + hi) \div 2
         IN  SumLines(n, k, lo, mid) + SumLines(n, k, mid + 1, hi)
ValuesWritten(n, k) == SumLines(n, k, 1, RangeCount(n, k))

\* f"{idx:02d}"
Pad2(i) == ZeroPad(Digits(i, 10), 2)

RunInit ==
    /\ tool \in {"img2bytes", "img2rgb565", "img2rgb666"}
    /\ argKind \in {"dir", "file", "missing"}
    /\ IF argKind = "dir" /\ tool # "img2rgb666"
       THEN /\ dirEntries \in {S \in SUBSET EntryUniverse : Cardinality(S) <= MaxEntries}
            /\ listing \in Orders(dirEntries)
       ELSE /\ dirEntries = {}
            /\ listing = <<>>
    /\ IF argKind = "file"
       THEN inputName \in {e.name : e \in {x \in EntryUniverse : x.isfile}}
       ELSE inputName = <<>>
    /\ pc = "start"
    /\ files = <<>>
    /\ idx = 0
    /\ arrays = <<>>
    /\ arrayNames = <<>>
    /\ arraySizes = <<>>
    /\ numImages = 0
    /\ ptrTable = NoTable
    /\ sizeTable = NoTable
    /\ written = "absent"
    /\ exitStatus = 0
    /\ report = {}

\* convert_image_to_rgb565_data (and the same checks of convert_image_to_rgb666):
\* env says what the file system and the decoder do with the path
Convert(name, env) ==
    IF env = "gone" THEN [kind |-> "none", msg |-> "not_exist", len |-> 0]
    ELSE IF Ext(name) \notin SupportedFormats
         THEN [kind |-> "none", msg |-> "unsupported", len |-> 0]
    ELSE IF env = "undecodable"
         THEN [kind |-> "raise", msg |-> "decode_exception", len |-> 0]
    ELSE [kind |-> "data", msg |-> "", len |-> ResizeSide * ResizeSide]

ConvertEnvs == {"ok", "gone", "undecodable"}

\* what write_array_to_file leaves in the artifact for one list
Array565(suffix, src, n) ==
    [suffix |-> suffix, src |-> src, declared |-> n,
     nvalues |-> ValuesWritten(n, WordsPerLine)]

\* img2rgb565.py process_directory_mode, lines 75-91
RGB565DirList ==
    /\ tool = "img2rgb565" /\ argKind = "dir" /\ pc = "start"
    /\ files' = FilterSort565(listing)
    /\ listing' = <<>>
    /\ IF files' = <<>>
       THEN /\ report' = report \cup {"no_files"}
            /\ pc' = "exit"
            /\ UNCHANGED <<written, exitStatus>>
       ELSE \E openOk \in BOOLEAN :
              IF openOk
              THEN /\ written' = "partial"
                   /\ pc' = "loop"
                   /\ UNCHANGED <<report, exitStatus>>
              ELSE /\ report' = report \cup {"open_exception"}
                   /\ exitStatus' = 1
                   /\ pc' = "exit"
                   /\ UNCHANGED written
    /\ UNCHANGED <<tool, argKind, dirEntries, inputName, idx, arrays, arrayNames,
                   arraySizes, numImages, ptrTable, sizeTable>>

\* img2rgb565.py process_directory_mode, lines 93-101: one iteration
RGB565DirConvert ==
    /\ tool = "img2rgb565" /\ pc = "loop" /\ idx < Len(files)
    /\ \E env \in ConvertEnvs :
         LET file == files[idx + 1]
             data == Convert(file, env)
             next == IF idx + 1 < Len(files) THEN "loop" ELSE "tables"
         IN  CASE data.kind = "none" ->
                   /\ report' = report \cup {data.msg}
                   /\ idx' = idx + 1
                   /\ pc' = next
                   /\ UNCHANGED <<arrays, arraySizes, numImages, exitStatus>>
               [] data.kind = "raise" ->
                   /\ report' = report \cup {data.msg}
                   /\ exitStatus' = 1
                   /\ pc' = "exit"
                   /\ UNCHANGED <<arrays, arraySizes, numImages, idx>>
               [] OTHER ->
                   /\ arrays' = Append(arrays, Array565(Pad2(idx), file, data.len))
                   /\ arraySizes' = Append(arraySizes, data.len)
                   /\ numImages' = numImages + 1
                   /\ idx' = idx + 1
                   /\ pc' = next
                   /\ UNCHANGED <<report, exitStatus>>
    /\ UNCHANGED <<tool, argKind, dirEntries, listing, inputName, files, arrayNames,
                   ptrTable, sizeTable, written>>

\* img2rgb565.py process_directory_mode, lines 103-118
RGB565DirTables ==
    /\ tool = "img2rgb565" /\ pc = "tables"
    /\ ptrTable' = [declared |-> numImages,
                    entries |-> [i \in 1..numImages |-> Pad2(i - 1)]]
    /\ sizeTable' = [declared |-> numImages, entries |-> arraySizes]
    /\ written' = "complete"
    /\ report' = report \cup {"saved"}
    /\ pc' = "exit"
    /\ UNCHANGED <<tool, argKind, dirEntries, listing, inputName, files, idx, arrays,
                   arrayNames, arraySizes, numImages, exitStatus>>

\* img2rgb565.py process_file_mode, lines 56-66
RGB565File ==
    /\ tool = "img2rgb565" /\ argKind = "file" /\ pc = "start"
    /\ \E env \in ConvertEnvs, openOk \in BOOLEAN :
         LET data == Convert(inputName, env)
         IN  CASE data.kind = "none" ->
                   /\ report' = report \cup {data.msg}
                   /\ UNCHANGED <<arrays, written, exitStatus>>
               [] data.kind = "raise" ->
                   /\ report' = report \cup {data.msg}
                   /\ exitStatus' = 1
                   /\ UNCHANGED <<arrays, written>>
               [] data.kind = "data" /\ ~openOk ->
                   /\ report' = report \cup {"open_exception"}
                   /\ exitStatus' = 1
                   /\ UNCHANGED <<arrays, written>>
               [] OTHER ->
                   /\ arrays' = <<Array565(<<>>, inputName, data.len)>>
                   /\ written' = "complete"
                   /\ report' = report \cup {"saved"}
                   /\ UNCHANGED exitStatus
    /\ pc' = "exit"
    /\ UNCHANGED <<tool, argKind, dirEntries, listing, inputName, files, idx,
                   arrayNames, arraySizes, numImages, ptrTable, sizeTable>>

\* img2rgb565.py __main__, lines 129-130
RGB565Missing ==
    /\ tool = "img2rgb565" /\ argKind = "missing" /\ pc = "start"
    /\ report' = report \cup {"invalid_path"}
    /\ pc' = "exit"
    /\ UNCHANGED <<tool, argKind, dirEntries, listing, inputName, files, idx, arrays,
                   arrayNames, arraySizes, numImages, ptrTable, sizeTable, written,
                   exitStatus>>

\* img2rgb666.py convert_image_to_rgb666, lines 8-47
RGB666Run ==
    /\ tool = "img2rgb666" /\ pc = "start"
    /\ \E env \in ConvertEnvs \ {"gone"}, openOk \in BOOLEAN :
         LET data == Convert(inputName, IF argKind = "file" THEN env ELSE "gone")
         IN  CASE data.kind = "none" ->
                   /\ report' = report \cup {data.msg}
                   /\ UNCHANGED <<arrays, written, exitStatus>>
               [] data.kind = "raise" ->
                   /\ report' = report \cup {data.msg}
                   /\ exitStatus' = 1
                   /\ UNCHANGED <<arrays, written>>
               [] data.kind = "data" /\ ~openOk ->
                   /\ report' = report \cup {"open_exception"}
                   /\ exitStatus' = 1
                   /\ UNCHANGED <<arrays, written>>
               [] OTHER ->
                   /\ arrays' = <<[suffix |-> <<>>, src |-> inputName,
                                   declared |-> DeclaredLen666,
                                   nvalues |-> ValuesWritten(data.len, WordsPerLine)]>>
                   /\ written' = "complete"
                   /\ report' = report \cup {"saved"}
                   /\ UNCHANGED exitStatus
    /\ pc' = "exit"
    /\ UNCHANGED <<tool, argKind, dirEntries, listing, inputName, files, idx,
                   arrayNames, arraySizes, numImages, ptrTable, sizeTable>>

\* the file lengths the model draws from: those up to MaxBytes that end a
\* line exactly, or miss or pass the end of a line by one byte
ByteLens ==
    {n \in 0..MaxBytes : n % BytesPerLine \in {0, 1, BytesPerLine - 1}}

\* what the directory loop of img2bytes.py appends for one file of n bytes
ArrayBytes(suffix, src, n) ==
    [suffix |-> suffix, src |-> src, declared |-> NoLen,
     nvalues |-> ValuesWritten(n, BytesPerLine)]

\* img2bytes.py process_directory_mode, lines 81-94
BytesDirList ==
    /\ tool = "img2bytes" /\ argKind = "dir" /\ pc = "start"
    /\ files' = FilterSortBytes(listing)
    /\ listing' = <<>>
    /\ IF files' = <<>>
       THEN /\ report' = report \cup {"no_files"}
            /\ exitStatus' = 1
            /\ pc' = "exit"
       ELSE /\ pc' = "loop"
            /\ UNCHANGED <<report, exitStatus>>
    /\ UNCHANGED <<tool, argKind, dirEntries, inputName, idx, arrays, arrayNames,
                   arraySizes, numImages, ptrTable, sizeTable, written>>

\* img2bytes.py process_directory_mode, lines 97-115: one iteration;
\* read_png_bytes (lines 29-35) either returns n bytes or exits with 1
BytesDirRead ==
    /\ tool = "img2bytes" /\ pc = "loop" /\ idx < Len(files)
    /\ \E readOk \in BOOLEAN, n \in ByteLens :
         IF readOk
         THEN /\ arrayNames' = Append(arrayNames, Pad2(idx))
              /\ arraySizes' = Append(arraySizes, n)
              /\ arrays' = Append(arrays, ArrayBytes(Pad2(idx), files[idx + 1], n))
              /\ idx' = idx + 1
              /\ pc' = IF idx + 1 < Len(files) THEN "loop" ELSE "tables"
              /\ UNCHANGED <<report, exitStatus>>
         ELSE /\ n = 0
              /\ report' = report \cup {"read_error"}
              /\ exitStatus' = 1
              /\ pc' = "exit"
              /\ UNCHANGED <<arrayNames, arraySizes, arrays, idx>>
    /\ UNCHANGED <<tool, argKind, dirEntries, listing, inputName, files, numImages,
                   ptrTable, sizeTable, written>>

\* img2bytes.py process_directory_mode, lines 117-137, with write_header_file
\* (lines 60-67): the whole content is written at once, or the run exits with 1
BytesDirWrite ==
    /\ tool = "img2bytes" /\ pc = "tables"
    /\ ptrTable' = [declared |-> Len(arrayNames), entries |-> arrayNames]
    /\ sizeTable' = [declared |-> Len(arrayNames), entries |-> arraySizes]
    /\ \E writeOk \in BOOLEAN :
         IF writeOk
         THEN /\ written' = "complete"
              /\ report' = report \cup {"saved"}
              /\ UNCHANGED exitStatus
         ELSE /\ report' = report \cup {"write_error"}
              /\ exitStatus' = 1
              /\ UNCHANGED written
    /\ pc' = "exit"
    /\ UNCHANGED <<tool, argKind, dirEntries, listing, inputName, files, idx, arrays,
                   arrayNames, arraySizes, numImages>>

\* img2bytes.py main lines 160-172 and process_file_mode, lines 73-77:
\* no test of the extension is made on this path
BytesFile ==
    /\ tool = "img2bytes" /\ argKind = "file" /\ pc = "start"
    /\ \E readOk \in BOOLEAN, n \in ByteLens, writeOk \in BOOLEAN :
         CASE ~readOk ->
               /\ n = 0 /\ writeOk
               /\ report' = report \cup {"read_error"}
               /\ exitStatus' = 1
               /\ UNCHANGED <<arrays, written>>
           [] readOk /\ ~writeOk ->
               /\ arrays' = <<ArrayBytes(<<>>, inputName, n)>>
               /\ report' = report \cup {"write_error"}
               /\ exitStatus' = 1
               /\ UNCHANGED written
           [] OTHER ->
               /\ arrays' = <<ArrayBytes(<<>>, inputName, n)>>
               /\ written' = "complete"
               /\ report' = report \cup {"saved"}
               /\ UNCHANGED exitStatus
    /\ pc' = "exit"
    /\ UNCHANGED <<tool, argKind, dirEntries, listing, inputName, files, idx,
                   arrayNames, arraySizes, numImages, ptrTable, sizeTable>>

\* img2bytes.py main, lines 173-175
BytesMissing ==
    /\ tool = "img2bytes" /\ argKind = "missing" /\ pc = "start"
    /\ report' = report \cup {"invalid_path"}
    /\ exitStatus' = 1
    /\ pc' = "exit"
    /\ UNCHANGED <<tool, argKind, dirEntries, listing, inputName, files, idx, arrays,
                   arrayNames, arraySizes, numImages, ptrTable, sizeTable, written>>

Init == RunInit /\ PixIdle /\ SerIdle /\ CmbIdle

Next ==
    \/ RGB565DirList /\ UNCHANGED <<pixVars, serVars, cmbVars>>
    \/ RGB565DirConvert /\ UNCHANGED <<pixVars, serVars, cmbVars>>
    \/ RGB565DirTables /\ UNCHANGED <<pixVars, serVars, cmbVars>>
    \/ RGB565File /\ UNCHANGED <<pixVars, serVars, cmbVars>>
    \/ RGB565Missing /\ UNCHANGED <<pixVars, serVars, cmbVars>>
    \/ RGB666Run /\ UNCHANGED <<pixVars, serVars, cmbVars>>
    \/ BytesDirList /\ UNCHANGED <<pixVars, serVars, cmbVars>>
    \/ BytesDirRead /\ UNCHANGED <<pixVars, serVars, cmbVars>>
    \/ BytesDirWrite /\ UNCHANGED <<pixVars, serVars, cmbVars>>
    \/ BytesFile /\ UNCHANGED <<pixVars, serVars, cmbVars>>
    \/ BytesMissing /\ UNCHANGED <<pixVars, serVars, cmbVars>>

Spec == Init /\ [][Next]_vars

---------------------------------------------------------------------------
(* Properties of an invocation *)

BatchRun == argKind = "dir" /\ tool \in {"img2bytes", "img2rgb565"}
\* an I/O failure on the input or the output was reported
IOFailed == report \cap {"read_error", "open_exception", "write_error"} # {}

\* the entries of the directory that are files named *.png, *.jpg or *.jpeg
\* (any letter case), and those the running tool's own filter keeps
PictureFiles == {e \in dirEntries : AcceptBytes(e)}
KeptByTool ==
    {e \in dirEntries : IF tool = "img2rgb565" THEN Accept565(e) ELSE AcceptBytes(e)}

\* C1 (as claimed): a batch run without I/O failure skips the images whose
\* conversion fails and finishes the artifact, whose pointer table and size
\* table each declare and hold as many entries as arrays were emitted.
C1_FailuresSkipped ==
    (BatchRun /\ pc = "exit" /\ files # <<>> /\ ~IOFailed) =>
        /\ written = "complete"
        /\ ptrTable.declared = Len(arrays)
        /\ Len(ptrTable.entries) = Len(arrays)
        /\ sizeTable.declared = Len(arrays)
        /\ Len(sizeTable.entries) = Len(arrays)

\* C5: the element count recorded for an array (its declared length where
\* one is written, its entry of the size table in batch mode) is the number
\* of values written in its body.
C5_CountMatchesBody ==
    \A i \in 1..Len(arrays) :
        /\ arrays[i].declared # NoLen => arrays[i].declared = arrays[i].nvalues
        /\ sizeTable # NoTable =>
             /\ i <= Len(sizeTable.entries)
             /\ sizeTable.entries[i] = arrays[i].nvalues

\* a finished batch artifact with sizes 0, 12 and 13 (12 values per line)
C5_Witness ==
    /\ tool = "img2bytes" /\ written = "complete"
    /\ sizeTable.entries = <<0, 12, 13>>
    /\ arrays[1].nvalues = 0 /\ arrays[2].nvalues = 12 /\ arrays[3].nvalues = 13

\* C6: in batch mode the arrays follow each other in ascending file-name
\* order, and the array with suffix NN holds the file that has exactly NN
\* kept files before it in that order.
C6_SortedSuffixes ==
    BatchRun =>
        /\ \A i, j \in 1..Len(arrays) : i < j => LexLess(arrays[i].src, arrays[j].src)
        /\ \A i \in 1..Len(arrays) :
             /\ \E e \in KeptByTool : e.name = arrays[i].src
             /\ arrays[i].suffix =
                  Pad2(Cardinality({e \in KeptByTool : LexLess(e.name, arrays[i].src)}))

\* a finished artifact for b.png and a.png: _00 is a.png, _01 is b.png
C6_Witness ==
    /\ BatchRun /\ written = "complete"
    /\ {e.name : e \in dirEntries} = {BPng, APng}
    /\ Len(arrays) = 2
    /\ arrays[1].src = APng /\ arrays[1].suffix = <<"0", "0">>
    /\ arrays[2].src = BPng /\ arrays[2].suffix = <<"0", "1">>

\* C8 (as claimed): a batch run over one .bmp file and one .png file, with
\* no read or write failure, leaves an artifact with exactly one array, the
\* one of the .png file.
C8_BmpSkippedPngKept ==
    (/\ BatchRun /\ pc = "exit"
     /\ dirEntries = {[name |-> CBmp, isfile |-> TRUE], [name |-> APng, isfile |-> TRUE]}
     /\ report \cap {"read_error", "write_error", "open_exception",
                     "decode_exception", "not_exist"} = {}) =>
        /\ written = "complete"
        /\ Len(arrays) = 1
        /\ arrays[1].src = APng

\* C9 (as claimed): a batch run over a directory with no .png/.jpg/.jpeg
\* file reports it, writes no artifact and exits with a non-zero status.
C9_EmptyBatchFails ==
    (BatchRun /\ pc = "exit" /\ PictureFiles = {}) =>
        /\ "no_files" \in report
        /\ written = "absent"
        /\ exitStatus # 0

\* C10 (as claimed): a single-file run on a file whose extension is none of
\* png, jpg, jpeg (any letter case) reports it and leaves no artifact.
C10_SingleFileAborts ==
    (argKind = "file" /\ pc = "exit" /\ Ext(inputName) \notin SupportedFormats) =>
        /\ report # {}
        /\ "saved" \notin report
        /\ written = "absent"

\* a failure of the kinds named by the exit-status contract was reported:
\* the input is missing or unreadable, it cannot be decoded, or the output
\* cannot be written
FailureReported ==
    \/ argKind = "missing"
    \/ report \cap {"not_exist", "read_error", "decode_exception",
                    "open_exception", "write_error"} # {}

\* C11 (as claimed): a run ends with status 0 exactly when it converted its
\* input and wrote its artifact, and with a non-zero status whenever the
\* input was missing or unreadable, could not be decoded, or the output
\* could not be written.
C11_ExitStatusTellsSuccess ==
    pc = "exit" =>
        /\ (exitStatus = 0) <=> (written = "complete" /\ "saved" \in report)
        /\ FailureReported /\ written # "complete" => exitStatus # 0

\* C12 (as claimed): in a finished batch artifact the pointer table lists
\* the identifiers of the declared arrays, each once and in declaration
\* order, and the i-th size is the element count of the i-th listed array.
C12_TablesNameDeclaredArrays ==
    (BatchRun /\ written = "complete") =>
        /\ ptrTable.entries = [i \in 1..Len(arrays) |-> arrays[i].suffix]
        /\ \A i \in 1..Len(ptrTable.entries) :
             \E j \in 1..Len(arrays) : arrays[j].suffix = ptrTable.entries[i]
        /\ Len(sizeTable.entries) = Len(ptrTable.entries)
        /\ \A i \in 1..Len(ptrTable.entries) :
             \A j \in 1..Len(arrays) :
                 arrays[j].suffix = ptrTable.entries[i] =>
                     sizeTable.entries[i] = arrays[j].nvalues

---------------------------------------------------------------------------
(* combine_h.py: paths are ASCII strings, '/' is 47 and '.' is 46 *)

\* os.path.join(a, b)
PathJoin(a, b) ==
    IF b # <<>> /\ b[1] = 47 THEN b
    ELSE IF a = <<>> \/ a[Len(a)] = 47 THEN a \o b
    ELSE a \o <<47>> \o b

\* s.split('/')
RECURSIVE SplitPath(_)
SplitPath(s) ==
    IF s = <<>> THEN << <<>> >>
    ELSE LET rest == SplitPath(Tail(s))
         IN  IF s[1] = 47 THEN << <<>> >> \o rest
             ELSE << <<s[1]>> \o rest[1] >> \o Tail(rest)

\* os.path.normpath on the components of an absolute path: empty and '.'
\* components are dropped, '..' removes the component before it
RECURSIVE Resolve(_, _)
Resolve(comps, acc) ==
    IF comps = <<>> THEN acc
    ELSE IF comps[1] = <<>> \/ comps[1] = <<46>> THEN Resolve(Tail(comps), acc)
    ELSE IF comps[1] = <<46, 46>>
         THEN Resolve(Tail(comps), IF acc = <<>> THEN acc ELSE SubSeq(acc, 1, Len(acc) - 1))
    ELSE Resolve(Tail(comps), Append(acc, comps[1]))

RECURSIVE JoinAbs(_)
JoinAbs(comps) ==
    IF comps = <<>> THEN <<>> ELSE <<47>> \o comps[1] \o JoinAbs(Tail(comps))

\* the working directory of the process, "/w"
Cwd == <<47, 119>>

\* os.path.abspath(p) = normpath(join(os.getcwd(), p))
AbsPath(p) ==
    LET r == JoinAbs(Resolve(SplitPath(PathJoin(Cwd, p)), <<>>))
    IN  IF r = <<>> THEN <<47>> ELSE r

\* os.path.basename(p)
Basename(p) == SplitPath(p)[Len(SplitPath(p))]

\* '.h'
DotH == <<46, 104>>

\* fnmatch of a directory entry against '*.h' as glob applies it: the case
\* of the letters counts, and a name that starts with '.' is never matched
GlobMatches(n) == n # <<>> /\ n[1] # 46 /\ EndsWith(n, DotH)

\* glob.glob(os.path.join(input_dir, "*.h")), in the order the directory is read
Glob(dir, order) ==
    LET kept == SelectSeq(order, GlobMatches)
    IN  [i \in 1..Len(kept) |-> PathJoin(dir, kept[i])]

\* the names the model draws the directory from
AH == <<97>> \o DotH
BH == <<98>> \o DotH
UpperZH == <<90>> \o DotH
CombinedH == <<99, 111, 109, 98, 105, 110, 101, 100>> \o DotH
HiddenDH == <<46, 100>> \o DotH
CTxt == <<99, 46, 116, 120, 116>>
HeaderUniverse == {AH, BH, UpperZH, CombinedH, HiddenDH, CTxt}

\* "inc", a subdirectory of the working directory
IncDir == <<105, 110, 99>>

\* the input_dir arguments and the directory each one names
InputDirs ==
    {[path |-> <<46>>, at |-> "cwd"],
     [path |-> IncDir, at |-> "inc"],
     [path |-> IncDir \o <<47>>, at |-> "inc"]}

\* the output arguments: a directory prefix in several spellings and a name
OutPrefixes ==
    {[path |-> <<>>, at |-> "cwd"],
     [path |-> <<46, 47>>, at |-> "cwd"],
     [path |-> Cwd \o <<47>>, at |-> "cwd"],
     [path |-> IncDir \o <<47>>, at |-> "inc"],
     [path |-> <<46, 47>> \o IncDir \o <<47>>, at |-> "inc"],
     [path |-> Cwd \o <<47>> \o IncDir \o <<47>>, at |-> "inc"]}
OutputFiles ==
    {[path |-> pre.path \o n, at |-> pre.at, name |-> n] :
        pre \in OutPrefixes, n \in {CombinedH, AH}}

CmbInit ==
    /\ inputDir \in InputDirs
    /\ outputFile \in OutputFiles
    /\ present \in {S \in SUBSET HeaderUniverse : Cardinality(S) <= MaxEntries}
    /\ globOrder \in Orders(present)
    /\ cmbPc = "start"
    /\ hFiles = <<>>
    /\ hIdx = 0
    /\ outfile = <<>>

\* the test of line 11 that keeps a path out of h_files
IsOutputPath(f, output_file) == AbsPath(f) = AbsPath(output_file)

\* combine_h.py combine_h_files, lines 8-12
CombineCollect ==
    /\ cmbPc = "start"
    /\ LET found == Glob(inputDir.path, globOrder)
           output_abs == outputFile.path
           kept == SelectSeq(found, LAMBDA f : ~IsOutputPath(f, output_abs))
       IN  hFiles' = SortNames(kept)
    /\ globOrder' = <<>>
    /\ cmbPc' = "open"
    /\ UNCHANGED <<inputDir, outputFile, present, hIdx, outfile>>

\* combine_h.py line 14: open(output_file, "w") empties or creates the file,
\* or raises
CombineOpen ==
    /\ cmbPc = "open"
    /\ \E ok \in BOOLEAN :
         cmbPc' = IF ~ok THEN "failed"
                  ELSE IF hFiles = <<>> THEN "close" ELSE "copy"
    /\ UNCHANGED <<inputDir, outputFile, present, globOrder, hFiles, hIdx, outfile>>

\* what infile.read() returns for a path of h_files: the text of that file,
\* named here by the file's name; the output file itself has just been emptied
ReadFile(h_file) ==
    IF inputDir.at = outputFile.at /\ Basename(h_file) = outputFile.name
    THEN <<>>
    ELSE Basename(h_file)

\* combine_h.py lines 15-21: one iteration
CombineCopy ==
    /\ cmbPc = "copy" /\ hIdx < Len(hFiles)
    /\ LET h_file == hFiles[hIdx + 1]
       IN  outfile' = Append(outfile, [begin   |-> Basename(h_file),
                                       content |-> ReadFile(h_file),
                                       end     |-> Basename(h_file)])
    /\ hIdx' = hIdx + 1
    /\ cmbPc' = IF hIdx + 1 < Len(hFiles) THEN "copy" ELSE "close"
    /\ UNCHANGED <<inputDir, outputFile, present, globOrder, hFiles>>

\* the end of the with block of line 14, and main, line 32
CombineClose ==
    /\ cmbPc = "close"
    /\ cmbPc' = "done"
    /\ UNCHANGED <<inputDir, outputFile, present, globOrder, hFiles, hIdx, outfile>>

CombineInit == CmbInit /\ PixIdle /\ SerIdle /\ RunIdle

CombineNext ==
    \/ CombineCollect /\ UNCHANGED <<pixVars, serVars, runVars>>
    \/ CombineOpen /\ UNCHANGED <<pixVars, serVars, runVars>>
    \/ CombineCopy /\ UNCHANGED <<pixVars, serVars, runVars>>
    \/ CombineClose /\ UNCHANGED <<pixVars, serVars, runVars>>

SpecCombine == CombineInit /\ [][CombineNext]_vars

\* the names in the input directory that end in ".h", the output file not
\* counted when it lies in that directory; and those not starting with '.'
OtherHeaders ==
    {n \in present : EndsWith(n, DotH)
                     /\ ~(inputDir.at = outputFile.at /\ n = outputFile.name)}
VisibleHeaders == {n \in OtherHeaders : n[1] # 46}

\* the written output holds, for each name of S, one block with the text of
\* that file between its two markers, the blocks in ascending path order,
\* and no block of the output file itself
CombinedExactly(S) ==
    /\ \A n \in S : Cardinality({i \in 1..Len(outfile) : outfile[i].content = n}) = 1
    /\ \A i \in 1..Len(outfile) :
         /\ outfile[i].content \in S
         /\ outfile[i].begin = outfile[i].content
         /\ outfile[i].end = outfile[i].content
    /\ \A i, j \in 1..Len(outfile) :
         i < j => LexLess(PathJoin(inputDir.path, outfile[i].begin),
                          PathJoin(inputDir.path, outfile[j].begin))

\* C13 (as claimed): the output of combine_h_files holds the content of every
\* .h file of the directory other than the output file itself exactly once,
\* between its Begin and End markers, in ascending path order, and nothing
\* of the output file's own.
C13_EveryHeaderOnce == cmbPc = "done" => CombinedExactly(OtherHeaders)

\* what the code does give: the same for the .h files whose names do not
\* start with a dot
VisibleHeadersCombined == cmbPc = "done" => CombinedExactly(VisibleHeaders)

===========================================================================
